---- MODULE Spec2Model ----
(***************************************************************************)
(* Messages and navigation models of telegram_menu (models.py): the        *)
(* keyboard of a message, button lookup, the expiry clock of an            *)
(* AppMessage, and the render choke point edit_message that the message    *)
(* delegates to its navigation manager.                                    *)
(***************************************************************************)
EXTENDS Integers, Sequences, FiniteSets, TLC

\* ------------------------------------------------------------------ bounds
MaxButtons == 3      \* add_button is called at most this many times
MaxAppState == 1     \* the application state rendered by a subclass: 0..MaxAppState
MaxTime == 245       \* the clock runs over 0..MaxTime seconds

\* --------------------------------------------------------------- constants
EXPIRING_DELAY == 120

Labels == {"X", "Y"}
ButtonType == {"NOTIFICATION", "MESSAGE", "PICTURE"}
Kinds == {"BaseMessage", "MenuMessage", "AppMessage"}

\* Python's None and a present value, as sequences of length 0 and 1.
None == << >>
Some(x) == << x >>
Callbacks == {None, Some("cb")}

\* The outcome of a call: a returned value or a raised exception.
Return(k, v) == [kind |-> k, val |-> v]
ReturnNone == Return("none", 0)
Raise(e) == Return("exc", e)

VARIABLES
    kind,               \* the class of the message object
    overrides,          \* whether a subclass outside this module overrides content_updater
    keyboard,           \* self.keyboard: sequence of MenuButton objects
    label,              \* self.label
    is_inline,          \* self.is_inline
    keyboard_previous,  \* self._keyboard_previous
    content_previous,   \* self._content_previous
    status,             \* self._status (AppMessage)
    home_after,         \* self.home_after (AppMessage)
    message_id,         \* self.message_id (AppMessage)
    time_alive,         \* self.time_alive (AppMessage)
    expiry_period,      \* self.expiry_period (AppMessage), seconds
    now,                \* datetime.datetime.now(), seconds
    next_oid,           \* identity of the next MenuButton object constructed
    app_state,          \* application state a subclass's content_updater renders
    op,                 \* the last call made on the message, with its arguments
    ret,                \* the outcome of that call
    transport,          \* number of transport send/edit calls the last call made
    prev_edit,          \* outcome of the call before the last, when it was edit_message
    last_pulse          \* clock value of the most recent is_alive() call

vars == << kind, overrides, keyboard, label, is_inline, keyboard_previous,
           content_previous, status, home_after, message_id, time_alive,
           expiry_period, now, next_oid, app_state, op, ret, transport,
           prev_edit, last_pulse >>

base_fields == << keyboard, label, is_inline, keyboard_previous, content_previous >>
app_fields == << status, home_after, message_id, time_alive, expiry_period >>
class_fields == << kind, overrides >>

\* ----------------------------------------------------------------- buttons
\* MenuButton.__init__: a new object (identity oid) with the three attributes.
MenuButton(oid, l, callback, btype) ==
    [oid |-> oid, label |-> l, callback |-> callback, btype |-> btype]

\* The default of MenuButton.__init__'s btype parameter.
DefaultBtype == "NOTIFICATION"

\* b1 == b2 on MenuButton objects: the class defines no __eq__, so Python
\* compares object identity.
ButtonEq(b1, b2) == b1.oid = b2.oid

\* list == list: same length and element-wise ==.
KeyboardEq(k1, k2) ==
    /\ Len(k1) = Len(k2)
    /\ \A i \in 1..Len(k1) : ButtonEq(k1[i], k2[i])

\* ------------------------------------------------------------ BaseMessage
\* get_button with the duplicate check off by one (faulty variant).
get_button_off_by_one(kb, l) ==
    LET buttons == SelectSeq(kb, LAMBDA x : x.label = l) IN
    IF Len(buttons) > 2 THEN Raise("EnvironmentError")
    ELSE IF Len(buttons) = 0 THEN ReturnNone
    ELSE Return("button", buttons[1])

\* get_button without the duplicate check (faulty variant).
get_button_first(kb, l) ==
    LET buttons == SelectSeq(kb, LAMBDA x : x.label = l) IN
    IF Len(buttons) = 0 THEN ReturnNone
    ELSE Return("button", buttons[1])

\* BaseMessage.get_button: the buttons of the keyboard whose label matches;
\* more than one raises, none returns None, else the first.
get_button(kb, l) ==
    LET buttons == SelectSeq(kb, LAMBDA x : x.label = l) IN
    IF Len(buttons) > 1 THEN Raise("EnvironmentError")
    ELSE IF Len(buttons) = 0 THEN ReturnNone
    ELSE Return("button", buttons[1])

\* add_button that replaces a button already carrying the label (faulty variant).
add_button_replacing(kb, oid, l, callback) ==
    LET b == MenuButton(oid, l, callback, DefaultBtype) IN
    IF \E i \in 1..Len(kb) : kb[i].label = l
    THEN [i \in 1..Len(kb) |-> IF kb[i].label = l THEN b ELSE kb[i]]
    ELSE Append(kb, b)

\* BaseMessage.add_button: self.keyboard.append(MenuButton(label, callback)).
add_button(kb, oid, l, callback) ==
    Append(kb, MenuButton(oid, l, callback, DefaultBtype))

\* content_updater returning empty content instead of raising (faulty variant).
content_updater_empty == Return("content", << >>)

\* BaseMessage.content_updater, MenuMessage.content_updater and
\* AppMessage.content_updater: each raises NotImplementedError.
BaseMessage_content_updater == Raise("NotImplementedError")
MenuMessage_content_updater == Raise("NotImplementedError")
AppMessage_content_updater == Raise("NotImplementedError")

\* What a subclass's own content_updater renders from the application state.
Render(st) == << st >>

\* Dynamic dispatch of self.content_updater().
content_updater(k, ov, st) ==
    IF ov THEN Return("content", Render(st))
    ELSE CASE k = "BaseMessage" -> BaseMessage_content_updater
           [] k = "MenuMessage" -> MenuMessage_content_updater
           [] k = "AppMessage" -> AppMessage_content_updater

\* ------------------------------------------------------------- AppMessage
\* has_expired with an inclusive comparison (faulty variant).
has_expired_inclusive(ta, ep, t) ==
    IF ta = None THEN Raise("TypeError")
    ELSE Return("bool", ta[1] + ep <= t)

\* AppMessage.has_expired: self.time_alive + self.expiry_period < now();
\* None + timedelta raises TypeError.
has_expired(ta, ep, t) ==
    IF ta = None THEN Raise("TypeError")
    ELSE Return("bool", ta[1] + ep < t)

\* ------------------------------------------------------------------ calls
Op(name, l, callback) == [name |-> name, label |-> l, callback |-> callback]
Call(name) == Op(name, "", None)

\* How the last call ended, when it was edit_message.
EditOutcome ==
    IF op.name # "edit_message" THEN "none"
    ELSE IF ret.kind = "exc"
         THEN (IF ret.val = "TransportError" THEN "failed" ELSE "raised")
         ELSE (IF ret.val THEN "sent" ELSE "suppressed")

\* Bookkeeping of a call: what was called, how it ended, what it sent.
Record(o, r, t) ==
    /\ op' = o
    /\ ret' = r
    /\ transport' = t
    /\ prev_edit' = EditOutcome

\* BaseMessage.__init__
BaseMessageInit ==
    /\ keyboard = << >>
    /\ label = "msg"
    /\ keyboard_previous = << >>
    /\ content_previous = None

\* AppMessage.__init__ after BaseMessage.__init__. A BaseMessage or MenuMessage
\* has none of these attributes: there they are placeholders no call reads.
AppMessageInit ==
    /\ status = None
    /\ home_after = FALSE
    /\ message_id = None
    /\ time_alive = None
    /\ expiry_period = EXPIRING_DELAY

\* The state after construction of a message of any of the three classes,
\* or of a subclass that overrides content_updater.
Init ==
    /\ kind \in Kinds
    /\ overrides \in BOOLEAN
    /\ BaseMessageInit
    /\ is_inline = (kind = "AppMessage")
    /\ AppMessageInit
    /\ now = 0
    /\ next_oid = 1
    /\ app_state = 0
    /\ op = Call("__init__")
    /\ ret = ReturnNone
    /\ transport = 0
    /\ prev_edit = "none"
    /\ last_pulse = None

\* self.add_button(l, callback)
call_add_button(l, callback) ==
    /\ Len(keyboard) < MaxButtons
    /\ keyboard' = add_button(keyboard, next_oid, l, callback)
    /\ next_oid' = next_oid + 1
    /\ Record(Op("add_button", l, callback), ReturnNone, 0)
    /\ UNCHANGED << label, is_inline, keyboard_previous, content_previous >>
    /\ UNCHANGED << app_fields, class_fields, now, app_state, last_pulse >>

\* self.get_button(l)
call_get_button(l) ==
    /\ Record(Op("get_button", l, None), get_button(keyboard, l), 0)
    /\ UNCHANGED << base_fields, app_fields, class_fields, now, next_oid,
                    app_state, last_pulse >>

\* self.content_updater()
call_content_updater ==
    /\ Record(Call("content_updater"),
              content_updater(kind, overrides, app_state), 0)
    /\ UNCHANGED << base_fields, app_fields, class_fields, now, next_oid,
                    app_state, last_pulse >>

\* A button callback changes the application state the message renders.
app_change ==
    /\ \E st \in 0..MaxAppState :
          /\ st # app_state
          /\ app_state' = st
    /\ Record(Call("callback"), ReturnNone, 0)
    /\ UNCHANGED << base_fields, app_fields, class_fields, now, next_oid,
                    last_pulse >>

\* The body of AppMessage.is_alive: self.time_alive = now().
refresh_liveness ==
    /\ time_alive' = Some(now)
    /\ last_pulse' = Some(now)

\* edit_message recording no snapshot after a render (faulty variant).
update_snapshots_stale(content) ==
    UNCHANGED << keyboard_previous, content_previous >>

\* NavigationManager.edit_message, step 4: the snapshots of what was sent.
update_snapshots(content) ==
    /\ content_previous' = Some(content)
    /\ keyboard_previous' = keyboard

\* self.edit_message(): self._navigation.edit_message(self). The manager
\* renders the message, compares with the snapshots, and sends or edits
\* through the transport only when something changed; the transport may fail.
call_edit_message ==
    LET fresh == content_updater(kind, overrides, app_state) IN
    IF fresh.kind = "exc"
    THEN /\ Record(Call("edit_message"), fresh, 0)
         /\ UNCHANGED << base_fields, app_fields, class_fields, now, next_oid,
                         app_state, last_pulse >>
    ELSE IF content_previous = Some(fresh.val)
            /\ KeyboardEq(keyboard, keyboard_previous)
    THEN /\ Record(Call("edit_message"), Return("bool", FALSE), 0)
         /\ UNCHANGED << base_fields, app_fields, class_fields, now, next_oid,
                         app_state, last_pulse >>
    ELSE \/ /\ Record(Call("edit_message"), Return("bool", TRUE), 1)
            /\ update_snapshots(fresh.val)
            /\ IF kind = "AppMessage"
               THEN /\ message_id' = (IF message_id = None THEN Some(1) ELSE message_id)
                    /\ refresh_liveness
               ELSE UNCHANGED << message_id, time_alive, last_pulse >>
            /\ UNCHANGED << keyboard, label, is_inline, status, home_after,
                            expiry_period, class_fields, now, next_oid, app_state >>
         \/ /\ Record(Call("edit_message"), Raise("TransportError"), 1)
            /\ UNCHANGED << base_fields, app_fields, class_fields, now, next_oid,
                            app_state, last_pulse >>

\* datetime.datetime.now() advances by a second; the outcome of the last call
\* was that of an earlier clock value, so the tick replaces it.
Tick ==
    /\ now < MaxTime
    /\ now' = now + 1
    /\ Record(Call("tick"), ReturnNone, 0)
    /\ UNCHANGED << base_fields, app_fields, class_fields, next_oid, app_state,
                    last_pulse >>

\* self.is_alive()
call_is_alive ==
    /\ kind = "AppMessage"
    /\ refresh_liveness
    /\ Record(Call("is_alive"), ReturnNone, 0)
    /\ UNCHANGED << base_fields, status, home_after, message_id, expiry_period,
                    class_fields, now, next_oid, app_state >>

\* has_expired refreshing the time stamp it reads (faulty variant).
call_has_expired_refreshing ==
    /\ kind = "AppMessage"
    /\ Record(Call("has_expired"), has_expired(time_alive, expiry_period, now), 0)
    /\ time_alive' = Some(now)
    /\ UNCHANGED << base_fields, status, home_after, message_id, expiry_period,
                    class_fields, now, next_oid, app_state, last_pulse >>

\* self.has_expired()
call_has_expired ==
    /\ kind = "AppMessage"
    /\ Record(Call("has_expired"), has_expired(time_alive, expiry_period, now), 0)
    /\ UNCHANGED << base_fields, app_fields, class_fields, now, next_oid,
                    app_state, last_pulse >>

\* kill_message clearing the time stamp (faulty variant).
call_kill_message_clearing ==
    /\ kind = "AppMessage"
    /\ Record(Call("kill_message"), ReturnNone, 0)
    /\ time_alive' = None
    /\ UNCHANGED << base_fields, status, home_after, message_id, expiry_period,
                    class_fields, now, next_oid, app_state, last_pulse >>

\* self.kill_message(): logs label and message_id.
call_kill_message ==
    /\ kind = "AppMessage"
    /\ Record(Call("kill_message"), ReturnNone, 0)
    /\ UNCHANGED << base_fields, app_fields, class_fields, now, next_oid,
                    app_state, last_pulse >>

\* --------------------------------------------------------- specifications
\* The message and its keyboard, rendered through edit_message; the clock
\* stands still.
Next ==
    \/ \E l \in Labels, callback \in Callbacks : call_add_button(l, callback)
    \/ \E l \in Labels : call_get_button(l)
    \/ call_content_updater
    \/ app_change
    \/ call_edit_message

Spec == Init /\ [][Next]_vars

\* An AppMessage under a running clock.
InitExpiry == Init /\ kind = "AppMessage" /\ overrides = FALSE

NextExpiry ==
    \/ Tick
    \/ call_is_alive
    \/ call_has_expired
    \/ call_kill_message

SpecExpiry == InitExpiry /\ [][NextExpiry]_vars

\* ------------------------------------------------------------------ claims
\* The positions of the keyboard whose button carries label l.
Matching(kb, l) == {i \in DOMAIN kb : kb[i].label = l}

Buttons(kb) == {kb[i] : i \in DOMAIN kb}

LabelsDistinct(kb) ==
    \A i, j \in DOMAIN kb : i # j => kb[i].label # kb[j].label

\* C1: get_button(L) is decided by the number n of buttons labelled L: None
\* for n = 0, exactly that button for n = 1, the duplicate-label error for
\* n > 1; a returned button always carries label L.
C1_GetButtonByCount ==
    op.name = "get_button" =>
        LET n == Cardinality(Matching(keyboard, op.label)) IN
        /\ n = 0 => ret.kind = "none"
        /\ n = 1 => /\ ret.kind = "button"
                    /\ \E i \in Matching(keyboard, op.label) : ret.val = keyboard[i]
        /\ n > 1 => /\ ret.kind = "exc"
                    /\ ret.val = "EnvironmentError"
        /\ ret.kind = "button" => ret.val.label = op.label

\* A lookup of a label that two buttons carry, beside a button of another label.
C1_Witness ==
    /\ op.name = "get_button"
    /\ Cardinality(Matching(keyboard, op.label)) = 2
    /\ Len(keyboard) = 3
    /\ ret.kind = "exc"

C5_LabelsPairwiseDistinct == LabelsDistinct(keyboard)

\* C5 (amended): add_button admits a label already present; the labels are
\* pairwise distinct exactly when get_button raises for no label, and
\* get_button raises for exactly the labels carried more than once.
C5_DuplicatesSurfaceAtLookup ==
    /\ LabelsDistinct(keyboard) <=>
           \A l \in Labels : get_button(keyboard, l).kind # "exc"
    /\ \A l \in Labels :
           get_button(keyboard, l).kind = "exc" <=>
               \E i, j \in DOMAIN keyboard :
                   i # j /\ keyboard[i].label = l /\ keyboard[j].label = l

\* add_button has just appended a label the keyboard already held.
C5_Witness ==
    /\ op.name = "add_button"
    /\ ~LabelsDistinct(keyboard)
    /\ get_button(keyboard, op.label).kind = "exc"

\* C6: add_button returns normally and appends exactly one button with the
\* given label and callback and type Notification after the old keyboard;
\* label, is_inline, the snapshots and the AppMessage fields stay.
C6_AddButtonAppends ==
    [][op'.name = "add_button" =>
          /\ ret'.kind = "none"
          /\ Len(keyboard') = Len(keyboard) + 1
          /\ SubSeq(keyboard', 1, Len(keyboard)) = keyboard
          /\ keyboard'[Len(keyboard')].label = op'.label
          /\ keyboard'[Len(keyboard')].callback = op'.callback
          /\ keyboard'[Len(keyboard')].btype = "NOTIFICATION"
          /\ UNCHANGED << label, is_inline, keyboard_previous, content_previous >>
          /\ UNCHANGED app_fields]_vars

\* add_button has just been given a label the keyboard already held.
C6_Witness ==
    /\ op.name = "add_button"
    /\ Cardinality(Matching(keyboard, op.label)) > 1
    /\ keyboard[Len(keyboard)].callback = op.callback

\* C7 (as claimed): two buttons compare equal exactly when they agree in
\* label and type.
C7_EqualityByLabelAndType ==
    \A b1, b2 \in Buttons(keyboard) \cup Buttons(keyboard_previous) :
        ButtonEq(b1, b2) <=> (b1.label = b2.label /\ b1.btype = b2.btype)

\* C10: content_updater() of a message of any of the three classes that does
\* not override it raises NotImplementedError and returns no content.
C10_ContentUpdaterRaises ==
    ~overrides =>
        /\ content_updater(kind, overrides, app_state).kind = "exc"
        /\ op.name = "content_updater" =>
               /\ ret.kind = "exc"
               /\ ret.val = "NotImplementedError"

\* content_updater() has just been called on a plain AppMessage.
C10_Witness ==
    /\ ~overrides
    /\ kind = "AppMessage"
    /\ op.name = "content_updater"
    /\ ret.kind = "exc"

\* C2 (as claimed): on an AppMessage created at 0 on which is_alive() was
\* never called, has_expired() returns a boolean: false up to 119 s, true
\* from 121 s on.
C2_FreshMessageExpiry ==
    (op.name = "has_expired" /\ last_pulse = None) =>
        /\ ret.kind = "bool"
        /\ now <= EXPIRING_DELAY - 1 => ret.val = FALSE
        /\ now >= EXPIRING_DELAY + 1 => ret.val = TRUE

\* C3: when the most recent is_alive() call was at t, has_expired() at u
\* returns true exactly when u > t + expiry_period.
C3_ExpiredStrictlyAfterPeriod ==
    (op.name = "has_expired" /\ last_pulse # None) =>
        /\ ret.kind = "bool"
        /\ ret.val <=> now > last_pulse[1] + expiry_period

\* is_alive() at 100 s, has_expired() false at 219 s.
C3_Witness ==
    /\ op.name = "has_expired"
    /\ last_pulse = Some(100)
    /\ now = 219
    /\ ret.kind = "bool"
    /\ ret.val = FALSE

\* C8: time_alive, once set, never moves backwards; it changes only in
\* is_alive(), which sets it to the current clock value.
C8_TimeAliveForwardOnly ==
    [][/\ time_alive # None =>
              /\ time_alive' # None
              /\ time_alive'[1] >= time_alive[1]
       /\ time_alive' # time_alive => op'.name = "is_alive"
       /\ op'.name = "is_alive" => time_alive' = Some(now')]_vars

\* kill_message() after a liveness pulse and a later tick: the stamp is kept.
C8_Witness ==
    /\ op.name = "kill_message"
    /\ time_alive # None
    /\ 0 < time_alive[1]
    /\ time_alive[1] < now

\* C9: has_expired() changes no field of the message, and called again at the
\* same clock value it returns the same answer.
C9_HasExpiredPure ==
    [][op'.name = "has_expired" =>
          /\ UNCHANGED << time_alive, expiry_period, message_id, home_after >>
          /\ UNCHANGED << keyboard, keyboard_previous, content_previous >>
          /\ op.name = "has_expired" => (ret'.kind = ret.kind /\ ret'.val = ret.val)]_vars

\* has_expired() has answered true and the time stamp is still in the past.
C9_Witness ==
    /\ op.name = "has_expired"
    /\ ret.kind = "bool"
    /\ ret.val = TRUE
    /\ time_alive # None
    /\ time_alive[1] + expiry_period < now

====
